---- MODULE Spec2Model ----
(***************************************************************************)
(* Model of vitkuz-aws-logger: the redaction engine (redactor.ts:          *)
(* applyStrategy, recursiveRedact) and the execution-scoped logger         *)
(* context (context.ts: runWithLogger, getLogger, updateLoggerContext;     *)
(* wrapper.ts: withLogger).                                                *)
(*                                                                         *)
(* Three specifications share the module:                                  *)
(*   SpecApply  applyStrategy on one value and one strategy descriptor     *)
(*   Spec       recursiveRedact on a heap of objects and arrays            *)
(*   SpecCtx    the AsyncLocalStorage-backed logger context under          *)
(*              cooperative, interleaved scheduling                        *)
(* Each specification leaves the variables of the other two at rest.       *)
(***************************************************************************)
EXTENDS Integers, Sequences, FiniteSets, TLC

VARIABLES
    \* ---- SpecApply: one call of applyStrategy, and a second on its result
    aval,       \* the value handed to applyStrategy
    astrat,     \* the strategy descriptor
    ares,       \* the returned value ("pending" record before the call)
    ares2,      \* applyStrategy(ares, astrat)
    aphase,     \* "init" | "applied" | "reapplied" | "idle"
    \* ---- Spec: recursiveRedact on the objects and arrays the caller built
    heap,       \* the composites in memory: heap[n] is object or array n
    config,     \* the RedactionConfig
    phase,      \* "build" | "redacted" | "again" | "idle"
    before,     \* the heap as it was when recursiveRedact was called
    run1,       \* the outcome of recursiveRedact(heap[1], config)
    run2,       \* the outcome of recursiveRedact(<result of run1>, config)
    \* ---- SpecCtx: the logger context
    stores,     \* the LoggerStore objects made so far: stores[s].logger
    current,    \* the store asyncLocalStorage.getStore() returns, 0 for none
    running,    \* the branch on the thread, 0 when the event loop is idle
    status,     \* per branch: "idle" | "ready" | "running" | "done"
    frames,     \* per branch: the stores of the bodies it is inside of
    family,     \* per branch: the top-level branch it descends from
    warnings,   \* the number of console.warn calls
    \* ---- history kept for the claims
    scopes,     \* per branch: the scopes it is inside of
    bound,      \* per scope: the logger most recently bound to it
    last        \* the latest getLogger, updateLoggerContext or failure

avars == <<aval, astrat, ares, ares2, aphase>>
rvars == <<heap, config, phase, before, run1, run2>>
cvars == <<stores, current, running, status, frames, family, warnings,
          scopes, bound, last>>
vars == <<avars, rvars, cvars>>

(***************************************************************************)
(* JavaScript values.  Every value is a record [t, s, n] so that any two   *)
(* values can be compared:                                                 *)
(*   t = "str"    a string, s its characters (one-character strings)       *)
(*   t = "num"    a number, s the characters of String(value)              *)
(*   t = "null", "undef"                                                   *)
(*   t = "ref"    a reference to the composite (object or array) n         *)
(*   t = "fn"     a function, s = <<its name>>                             *)
(***************************************************************************)
Str(chars) == [t |-> "str", s |-> chars, n |-> 0]
Num(chars) == [t |-> "num", s |-> chars, n |-> 0]
Null == [t |-> "null", s |-> <<>>, n |-> 0]
Undefined == [t |-> "undef", s |-> <<>>, n |-> 0]
Ref(node) == [t |-> "ref", s |-> <<>>, n |-> node]
Fn(name) == [t |-> "fn", s |-> <<name>>, n |-> 0]

\* ---- bounds of SpecApply
MaxStrLen == 3
MaxLastN == 2

\* ---- String primitives of the JavaScript runtime, as the code uses them.

\* String.prototype.repeat
Repeat(c, k) == [i \in 1..k |-> c]

\* String.prototype.slice(start) with one argument: a negative start counts
\* from the end, and -0 is 0.
Slice(chars, start) ==
    LET len == Len(chars)
        from == IF start < 0
                THEN (IF len + start > 0 THEN len + start ELSE 0)
                ELSE (IF start < len THEN start ELSE len)
    IN  SubSeq(chars, from + 1, len)

\* String.prototype.startsWith
StartsWith(chars, prefix) ==
    /\ Len(chars) >= Len(prefix)
    /\ SubSeq(chars, 1, Len(prefix)) = prefix

\* String.prototype.split(sep) for a one-character separator: the pieces
\* between the separators, in order.
RECURSIVE SplitFrom(_, _, _)
SplitFrom(chars, sep, piece) ==
    IF chars = <<>> THEN <<piece>>
    ELSE IF Head(chars) = sep
         THEN <<piece>> \o SplitFrom(Tail(chars), sep, <<>>)
         ELSE SplitFrom(Tail(chars), sep, Append(piece, Head(chars)))

Split(chars, sep) == SplitFrom(chars, sep, <<>>)

Digits == <<"0", "1", "2", "3", "4", "5", "6", "7", "8", "9">>
IsDigit(c) == \E i \in 1..10 : Digits[i] = c
DigitVal(c) == (CHOOSE i \in 1..10 : Digits[i] = c) - 1

\* NaN, the result of parseInt on a string with no leading number.
NaN == -1

RECURSIVE DigitsValue(_, _)
DigitsValue(chars, acc) ==
    IF chars = <<>> \/ ~IsDigit(Head(chars)) THEN acc
    ELSE DigitsValue(Tail(chars), 10 * acc + DigitVal(Head(chars)))

RECURSIVE SkipSpaces(_)
SkipSpaces(chars) ==
    IF chars # <<>> /\ Head(chars) = " " THEN SkipSpaces(Tail(chars)) ELSE chars

\* parseInt(s, 10): leading blanks and a "+" sign are skipped, then the
\* longest run of digits is read; NaN when there is none.  (A "-" sign cannot
\* reach parseInt here: the argument is a piece of split('-').)
ParseInt(chars) ==
    LET t == SkipSpaces(chars)
        u == IF t # <<>> /\ Head(t) = "+" THEN Tail(t) ELSE t
    IN  IF u = <<>> \/ ~IsDigit(Head(u)) THEN NaN ELSE DigitsValue(u, 0)

UpperCase == <<"A", "B", "C", "D", "E", "F", "G", "H", "I", "J", "K", "L", "M",
               "N", "O", "P", "Q", "R", "S", "T", "U", "V", "W", "X", "Y", "Z">>
LowerCase == <<"a", "b", "c", "d", "e", "f", "g", "h", "i", "j", "k", "l", "m",
               "n", "o", "p", "q", "r", "s", "t", "u", "v", "w", "x", "y", "z">>

LowerChar(c) ==
    IF \E i \in 1..26 : UpperCase[i] = c
    THEN LowerCase[CHOOSE i \in 1..26 : UpperCase[i] = c]
    ELSE c

\* String.prototype.toLowerCase
ToLowerCase(chars) == [i \in 1..Len(chars) |-> LowerChar(chars[i])]

\* ---- The fixed strings of redactor.ts
MaskChar == "*"
Mask == Str(<<"*", "*", "*", "*", "*">>)
HashFailed == Str(<<"[", "H", "A", "S", "H", "_", "F", "A", "I", "L", "E", "D",
                    "_", "T", "Y", "P", "E", "]">>)
CircularMarker == Str(<<"[", "C", "i", "r", "c", "u", "l", "a", "r", "]">>)
MaskLastPrefix == <<"m", "a", "s", "k", "-", "l", "a", "s", "t", "-">>
StrategyMask == Str(<<"m", "a", "s", "k">>)
StrategyRemove == Str(<<"r", "e", "m", "o", "v", "e">>)
StrategyHash == Str(<<"h", "a", "s", "h">>)
MaskLast(tail) == Str(MaskLastPrefix \o tail)

\* crypto.createHash('sha256').update(String(value)).digest('hex'): the
\* digest is kept symbolic, sha256(<input>), one token per input character.
\* It is injective and never equal to its input, which is what SHA-256
\* gives on every input anyone can exhibit; its 64 hex digits are not
\* spelled out.
Sha256Hex(chars) == <<"sha256(">> \o chars \o <<")">>

\* The custom transforms (strategy functions) the model lets a policy hold.
\*   "redactFn"  (v) => 'X'        "dropFn"  (v) => undefined
\*   "sameFn"    (v) => v
CustomFns == {"redactFn", "dropFn", "sameFn"}

CallFn(name, value) ==
    CASE name = "redactFn" -> Str(<<"X">>)
      [] name = "dropFn" -> Undefined
      [] OTHER -> value

\* value.slice(1 - lastN): a suffix taken one position off
VisibleSuffixOffByOne(chars, lastN) == Slice(chars, 1 - lastN)

\* value.slice(-lastN), the visible suffix of mask-last-N
VisibleSuffix(chars, lastN) == Slice(chars, 0 - lastN)

\* applyStrategy(value, strategy)
ApplyStrategy(value, strategy) ==
    IF strategy.t = "fn" THEN CallFn(strategy.s[1], value)
    ELSE IF strategy.t = "str" /\ StartsWith(strategy.s, MaskLastPrefix)
    THEN LET parts == Split(strategy.s, "-")
             lastN == ParseInt(parts[3])
         IN  IF value.t = "str" /\ lastN # NaN
             THEN IF Len(value.s) <= lastN
                  THEN value
                  ELSE LET maskLen == Len(value.s) - lastN
                       IN  Str(Repeat(MaskChar, maskLen) \o VisibleSuffix(value.s, lastN))
             ELSE Mask
    ELSE IF strategy = StrategyRemove THEN Undefined
    ELSE IF strategy = StrategyHash
         THEN IF value.t = "str" \/ value.t = "num"
              THEN Str(Sha256Hex(value.s))
              ELSE HashFailed
    ELSE Mask

(***************************************************************************)
(* SpecApply: applyStrategy is called on a value, then again on its result *)
(***************************************************************************)
ValueChars == {"1", "2", "*"}

Strings == UNION {[1..k -> ValueChars] : k \in 0..MaxStrLen}

ApplyValues == {Str(c) : c \in Strings} \cup {Num(<<"7">>), Null, Ref(1)}

NumberTails == {<<Digits[k + 1]>> : k \in 0..MaxLastN}

ApplyStrategies ==
    {StrategyMask, StrategyRemove, StrategyHash, Str(<<"o", "t", "h", "e", "r">>)}
    \cup {MaskLast(t) : t \in NumberTails}
    \cup {MaskLast(<<>>), MaskLast(<<"x">>), MaskLast(<<"1", "x">>), MaskLast(<<"1", "-", "2">>)}
    \cup {Fn(f) : f \in CustomFns}

Pending == [t |-> "pending", s |-> <<>>, n |-> 0]

ApplyStart ==
    /\ aval \in ApplyValues
    /\ astrat \in ApplyStrategies
    /\ ares = Pending
    /\ ares2 = Pending
    /\ aphase = "init"

ApplyIdle ==
    /\ aval = Null
    /\ astrat = StrategyMask
    /\ ares = Pending
    /\ ares2 = Pending
    /\ aphase = "idle"

\* the call applyStrategy(value, strategy) of redactor.ts line 138
Apply ==
    /\ aphase = "init"
    /\ ares' = ApplyStrategy(aval, astrat)
    /\ aphase' = "applied"
    /\ UNCHANGED <<aval, astrat, ares2>>
    /\ UNCHANGED <<rvars, cvars>>

\* the same key met again on a second pass: applyStrategy on the stored result
Reapply ==
    /\ aphase = "applied"
    /\ ares # Undefined
    /\ ares2' = ApplyStrategy(ares, astrat)
    /\ aphase' = "reapplied"
    /\ UNCHANGED <<aval, astrat, ares>>
    /\ UNCHANGED <<rvars, cvars>>

(***************************************************************************)
(* Claims about applyStrategy (SpecApply)                                  *)
(***************************************************************************)
Applied == aphase \in {"applied", "reapplied"}

\* What the mask-last-N rule prescribes for a string and a count N.
MaskLastExpected(chars, lastN) ==
    IF Len(chars) <= lastN THEN chars
    ELSE [i \in 1..Len(chars) |->
            IF i <= Len(chars) - lastN THEN MaskChar ELSE chars[i]]

\* C8: for a string value and a descriptor mask-last-N, the result is the
\* value itself when its length is at most N, and otherwise (length - N) mask
\* characters followed by exactly the last N characters of the value, so it is
\* as long as the value and shows only its last N characters.
C8_MaskLastN ==
    \A k \in 0..MaxLastN :
        (Applied /\ aval.t = "str" /\ astrat = MaskLast(<<Digits[k + 1]>>))
            => ares = Str(MaskLastExpected(aval.s, k))

\* The same rule for N >= 1 only, where the code follows it.
MaskLastPositiveN ==
    \A k \in 1..MaxLastN :
        (Applied /\ aval.t = "str" /\ astrat = MaskLast(<<Digits[k + 1]>>))
            => ares = Str(MaskLastExpected(aval.s, k))

\* A longer string has been partially masked with N >= 1.
MaskLastPositiveNReached ==
    /\ Applied /\ aval.t = "str" /\ astrat = MaskLast(<<"1">>)
    /\ Len(aval.s) = 3 /\ ares = Str(<<"*", "*", aval.s[3]>>)

(***************************************************************************)
(* The redaction engine: recursiveRedact over a heap of composites.        *)
(*                                                                         *)
(* heap[n] = [kind |-> "obj" | "arr", items |-> <<[k |-> key, v |-> value]>>]*)
(* An object's items are its entries in Object.entries order, with         *)
(* distinct keys; an array's items are its elements, with k = <<>>.        *)
(* A value Ref(n) is a reference to heap[n]: identity is the index.        *)
(***************************************************************************)

\* ---- bounds of Spec
MaxNodes == 2
MaxEntries == 2

Obj(items) == [kind |-> "obj", items |-> items]
Arr(items) == [kind |-> "arr", items |-> items]
Entry(key, value) == [k |-> key, v |-> value]

\* The call stack of the runtime, scaled to the model: a walk of a heap of
\* MaxNodes composites nests at most MaxNodes + 1 calls, and a recursion
\* deeper than the limit ends the call with a RangeError.
StackLimit == MaxNodes + 2

\* JavaScript truthiness of the values a config can hold
Truthy(v) ==
    CASE v.t = "str" -> v.s # <<>>
      [] v.t = "num" -> v.s # <<"0">>
      [] v.t \in {"null", "undef"} -> FALSE
      [] OTHER -> TRUE

\* config.strategies[key]: the own property stored under exactly this key
Lookup(entries, key) ==
    IF \E i \in 1..Len(entries) : entries[i].k = key
    THEN entries[CHOOSE i \in 1..Len(entries) : entries[i].k = key].v
    ELSE Undefined

\* Object.keys(config.strategies).find((k) => k === lowerKey): the keys are
\* compared as spelled
FindStrategyKeyAsSpelled(entries, lowerKey) ==
    LET hits == {i \in 1..Len(entries) : entries[i].k = lowerKey}
    IN  IF hits = {} THEN Undefined
        ELSE Str(entries[CHOOSE i \in hits : \A j \in hits : i <= j].k)

\* Object.keys(config.strategies).find((k) => k.toLowerCase() === lowerKey):
\* the first key in insertion order, undefined when there is none
FindStrategyKey(entries, lowerKey) ==
    LET hits == {i \in 1..Len(entries) : ToLowerCase(entries[i].k) = lowerKey}
    IN  IF hits = {} THEN Undefined
        ELSE Str(entries[CHOOSE i \in hits : \A j \in hits : i <= j].k)

\* new Set(config.keys.map((k) => k.toLowerCase()))
KeysToRedact(cfg) == {ToLowerCase(cfg.keys[i]) : i \in 1..Len(cfg.keys)}

\* The strategy of a matched key (redactor.ts lines 117-136)
ResolveStrategy(cfg, key) ==
    LET lowerKey == ToLowerCase(key)
        fallback == IF Truthy(cfg.defaultStrategy) THEN cfg.defaultStrategy
                    ELSE StrategyMask
    IN  IF cfg.strategies.present /\ Truthy(Lookup(cfg.strategies.entries, key))
        THEN Lookup(cfg.strategies.entries, key)
        ELSE IF cfg.strategies.present
        THEN LET strategyKey == FindStrategyKey(cfg.strategies.entries, lowerKey)
             IN  IF Truthy(strategyKey)
                 THEN Lookup(cfg.strategies.entries, strategyKey.s)
                 ELSE fallback
        ELSE fallback

\* keysToRedact.has(key): the key is looked up as spelled
IsRedactedKeyAsSpelled(cfg, key) == key \in KeysToRedact(cfg)

\* keysToRedact.has(lowerKey), with lowerKey = key.toLowerCase()
IsRedactedKey(cfg, key) == ToLowerCase(key) \in KeysToRedact(cfg)

\* every result is stored, undefined too
KeepsAll(result) == TRUE

\* result !== undefined: the key is added to the output
Keeps(result) == result # Undefined

\* cache.has(target)
CacheHas(cache, node) == node \in cache

\* cache.add(target) left out
CacheAddNothing(cache, node) == cache

\* cache.add(target)
CacheAdd(cache, node) == cache \cup {node}

\* The walk's state: the memory (the caller's composites followed by the
\* ones the walk has built), the cache, and for the record the composites
\* entered, each with the copy built for it, the number of calls made and
\* whether the call stack overflowed.
WalkStart(h) ==
    [heap |-> h, cache |-> {}, entered |-> <<>>, calls |-> 0, overflow |-> FALSE]

\* target[key] = redactedObj[key] = value: the value is written into the
\* object being walked as well as into its copy
StoreInPlace(st, id, key, value) ==
    LET src == st.entered[CHOOSE e \in 1..Len(st.entered) : st.entered[e][2] = id][1]
        written == [i \in 1..Len(st.heap[src].items) |->
                       IF st.heap[src].items[i].k = key
                       THEN Entry(key, value) ELSE st.heap[src].items[i]]
    IN  [st EXCEPT !.heap[id].items = Append(@, Entry(key, value)),
                   !.heap[src].items = IF st.heap[src].kind = "obj"
                                       THEN written ELSE @]

\* redactedObj[key] = value, or the next element of the mapped array
Store(st, id, key, value) ==
    [st EXCEPT !.heap[id].items = Append(@, Entry(key, value))]

RECURSIVE RecursiveRedact(_, _, _, _)
RECURSIVE RedactItems(_, _, _, _, _, _)

\* The loop over Object.entries(target), and target.map(...): item i onwards
\* of the composite being copied into heap[id].
RedactItems(items, i, cfg, st, id, depth) ==
    IF i > Len(items) \/ st.overflow THEN st
    ELSE LET key == items[i].k
             value == items[i].v
         IN  IF st.heap[id].kind = "obj" /\ IsRedactedKey(cfg, key)
             THEN LET strategy == ResolveStrategy(cfg, key)
                      result == ApplyStrategy(value, strategy)
                  IN  RedactItems(items, i + 1, cfg,
                          IF Keeps(result) THEN Store(st, id, key, result) ELSE st,
                          id, depth)
             ELSE LET r == RecursiveRedact(value, cfg, st, depth + 1)
                  IN  RedactItems(items, i + 1, cfg,
                          Store(r.st, id, key, r.val), id, depth)

\* recursiveRedact(target, config, cache): the returned value and the state
\* after the call.
RecursiveRedact(target, cfg, st, depth) ==
    LET called == [st EXCEPT !.calls = @ + 1]
    IN  IF depth > StackLimit
        THEN [val |-> Undefined, st |-> [called EXCEPT !.overflow = TRUE]]
        ELSE IF target.t # "ref"
        THEN [val |-> target, st |-> called]
        ELSE IF CacheHas(called.cache, target.n)
        THEN [val |-> CircularMarker, st |-> called]
        ELSE LET id == Len(called.heap) + 1
                 source == called.heap[target.n]
                 opened == [called EXCEPT
                               !.cache = CacheAdd(@, target.n),
                               !.heap = Append(@, [kind |-> source.kind, items |-> <<>>]),
                               !.entered = Append(@, <<target.n, id>>)]
             IN  [val |-> Ref(id),
                  st |-> RedactItems(source.items, 1, cfg, opened, id, depth)]

\* createRedactor(config)(info): a top-level call, with a fresh cache
Redactor(h, target, cfg) == RecursiveRedact(target, cfg, WalkStart(h), 1)

(***************************************************************************)
(* Spec: the caller builds objects and arrays, then has them redacted,     *)
(* and the result redacted once more.                                      *)
(***************************************************************************)
KeyNames == {<<"a">>, <<"A">>, <<"b">>}

Leaves == {Str(<<"v", "w">>), Null}

KeyLists == {<<<<"a">>>>, <<<<"A">>, <<"b">>>>}

StrategyMaps ==
    { [present |-> FALSE, entries |-> <<>>],
      [present |-> TRUE, entries |-> <<Entry(<<"a">>, StrategyRemove)>>],
      [present |-> TRUE, entries |-> <<Entry(<<"A">>, StrategyHash),
                                       Entry(<<"a">>, MaskLast(<<"1">>))>>],
      [present |-> TRUE, entries |-> <<Entry(<<"b">>, Fn("dropFn")),
                                       Entry(<<"a">>, Fn("sameFn"))>>],
      [present |-> TRUE, entries |-> <<Entry(<<"A">>, StrategyHash),
                                       Entry(<<"a">>, Str(<<>>))>>] }

DefaultStrategies == {Undefined, StrategyRemove, MaskLast(<<"0">>)}

Configs ==
    [keys : KeyLists, strategies : StrategyMaps, defaultStrategy : DefaultStrategies]

NoRun == [val |-> Undefined, st |-> WalkStart(<<>>)]

Nodes == 1..Len(heap)

Values == Leaves \cup {Ref(n) : n \in Nodes}

EntryCount == LET RECURSIVE Sum(_)
                  Sum(n) == IF n = 0 THEN 0 ELSE Len(heap[n].items) + Sum(n - 1)
              IN  Sum(Len(heap))

RedactStart ==
    /\ heap \in {<<Obj(<<>>)>>, <<Arr(<<>>)>>}
    /\ config \in Configs
    /\ phase = "build"
    /\ before = <<>>
    /\ run1 = NoRun
    /\ run2 = NoRun

RedactIdle ==
    /\ heap = <<>>
    /\ config = [keys |-> <<>>, strategies |-> [present |-> FALSE, entries |-> <<>>],
                 defaultStrategy |-> Undefined]
    /\ phase = "idle"
    /\ before = <<>>
    /\ run1 = NoRun
    /\ run2 = NoRun

Composites == {Obj(<<>>), Arr(<<>>)}

HasKey(n, key) == \E i \in 1..Len(heap[n].items) : heap[n].items[i].k = key

\* o[key] = value, for a key the object does not have yet
SetField ==
    /\ phase = "build"
    /\ EntryCount < MaxEntries
    /\ \E n \in Nodes, key \in KeyNames, value \in Values :
        /\ heap[n].kind = "obj"
        /\ ~HasKey(n, key)
        /\ heap' = [heap EXCEPT ![n].items = Append(@, Entry(key, value))]
    /\ UNCHANGED <<config, phase, before, run1, run2>>
    /\ UNCHANGED <<avars, cvars>>

\* o[key] = {} or o[key] = []: a new composite, stored under a new key
SetFieldNew ==
    /\ phase = "build"
    /\ EntryCount < MaxEntries
    /\ Len(heap) < MaxNodes
    /\ \E n \in Nodes, key \in KeyNames, c \in Composites :
        /\ heap[n].kind = "obj"
        /\ ~HasKey(n, key)
        /\ heap' = Append([heap EXCEPT ![n].items =
                              Append(@, Entry(key, Ref(Len(heap) + 1)))], c)
    /\ UNCHANGED <<config, phase, before, run1, run2>>
    /\ UNCHANGED <<avars, cvars>>

\* a.push(value)
Push ==
    /\ phase = "build"
    /\ EntryCount < MaxEntries
    /\ \E n \in Nodes, value \in Values :
        /\ heap[n].kind = "arr"
        /\ heap' = [heap EXCEPT ![n].items = Append(@, Entry(<<>>, value))]
    /\ UNCHANGED <<config, phase, before, run1, run2>>
    /\ UNCHANGED <<avars, cvars>>

\* a.push({}) or a.push([])
PushNew ==
    /\ phase = "build"
    /\ EntryCount < MaxEntries
    /\ Len(heap) < MaxNodes
    /\ \E n \in Nodes, c \in Composites :
        /\ heap[n].kind = "arr"
        /\ heap' = Append([heap EXCEPT ![n].items =
                              Append(@, Entry(<<>>, Ref(Len(heap) + 1)))], c)
    /\ UNCHANGED <<config, phase, before, run1, run2>>
    /\ UNCHANGED <<avars, cvars>>

\* recursiveRedact(root, config), root being the first composite built
Redact ==
    /\ phase = "build"
    /\ LET r == Redactor(heap, Ref(1), config)
       IN  /\ run1' = r
           /\ heap' = r.st.heap
    /\ before' = heap
    /\ phase' = "redacted"
    /\ UNCHANGED <<config, run2>>
    /\ UNCHANGED <<avars, cvars>>

\* recursiveRedact(redacted, config): the output of the first call is
\* redacted again under the same config
RedactAgain ==
    /\ phase = "redacted"
    /\ ~run1.st.overflow
    /\ LET r == Redactor(heap, run1.val, config)
       IN  /\ run2' = r
           /\ heap' = r.st.heap
    /\ phase' = "again"
    /\ UNCHANGED <<config, before, run1>>
    /\ UNCHANGED <<avars, cvars>>

RedactNext == SetField \/ SetFieldNew \/ Push \/ PushNew \/ Redact \/ RedactAgain

(***************************************************************************)
(* Claims about recursiveRedact (Spec)                                     *)
(***************************************************************************)
Redacted == phase \in {"redacted", "again"}

\* The memory after the first call, the composites it entered and the copy
\* it built for each.
Memory1 == run1.st.heap
Entered1 == run1.st.entered
EnteredNodes == {Entered1[i][1] : i \in 1..Len(Entered1)}
CopyOf(n) == Entered1[CHOOSE i \in 1..Len(Entered1) : Entered1[i][1] = n][2]
Copies == {Entered1[i][2] : i \in 1..Len(Entered1)}

EntriesOf(h) == LET RECURSIVE Sum(_)
                    Sum(n) == IF n = 0 THEN 0 ELSE Len(h[n].items) + Sum(n - 1)
                IN  Sum(Len(h))

\* The copy that holds copy id as an item: its parent in the output tree.
HasParent(id) ==
    \E p \in Copies : p < id /\ \E i \in 1..Len(Memory1[p].items) :
        Memory1[p].items[i].v = Ref(id)
ParentCopy(id) ==
    CHOOSE p \in Copies : p < id /\ \E i \in 1..Len(Memory1[p].items) :
        Memory1[p].items[i].v = Ref(id)

\* Copy a is copy d or lies above it in the output tree.
RECURSIVE CopyAbove(_, _)
CopyAbove(a, d) ==
    IF a = d THEN TRUE
    ELSE IF HasParent(d) THEN CopyAbove(a, ParentCopy(d)) ELSE FALSE

\* Item i of the entered composite n closes a cycle: it refers to n itself
\* or to a composite the walk was inside of when it entered n.
ClosesCycle(n, i) ==
    LET v == before[n].items[i].v
    IN  /\ v.t = "ref"
        /\ v.n \in EnteredNodes
        /\ CopyAbove(CopyOf(v.n), CopyOf(n))

\* What the copy of n holds at the position of item i of n: the element i of
\* a copied array, the entry under the same key of a copied object
\* (undefined when the copy has no such element or entry).
OutputAt(n, i) ==
    LET copy == Memory1[CopyOf(n)]
    IN  IF before[n].kind = "arr"
        THEN (IF i <= Len(copy.items) THEN copy.items[i].v ELSE Undefined)
        ELSE Lookup(copy.items, before[n].items[i].k)

\* The key of item i of n is one the policy names (in any letter case).
SpecMatches(n, i) ==
    /\ before[n].kind = "obj"
    /\ \E j \in 1..Len(config.keys) :
          ToLowerCase(config.keys[j]) = ToLowerCase(before[n].items[i].k)

Slots == {<<n, i>> \in EnteredNodes \X (1..MaxEntries + 1) : i <= Len(before[n].items)}

Terminates == /\ ~run1.st.overflow
              /\ run1.st.calls <= 1 + EntriesOf(before)

EnteredOnce ==
    \A i, j \in 1..Len(Entered1) : Entered1[i][1] = Entered1[j][1] => i = j

\* C1 as stated: on every input, recursiveRedact terminates, enters each
\* composite at most once, and every position that closes a cycle holds
\* '[Circular]' in the output.
C1_CircularEverywhere ==
    Redacted =>
        /\ Terminates
        /\ EnteredOnce
        /\ \A s \in Slots : ClosesCycle(s[1], s[2]) => OutputAt(s[1], s[2]) = CircularMarker

\* C1 amended: recursiveRedact terminates, enters each composite at most
\* once, and every position that closes a cycle and that the walk reaches (an
\* array element, or an entry whose key the policy does not name) holds
\* '[Circular]'; an entry whose key the policy names is not walked, also when
\* it closes a cycle: it holds its strategy's result or is left out.
C1_CircularWhereWalked ==
    Redacted =>
        /\ Terminates
        /\ EnteredOnce
        /\ \A s \in Slots : ClosesCycle(s[1], s[2]) =>
              IF SpecMatches(s[1], s[2])
              THEN OutputAt(s[1], s[2]) # CircularMarker
              ELSE OutputAt(s[1], s[2]) = CircularMarker

\* A cycle of length 2 has been redacted: the second composite refers back
\* to the root under a key the policy does not name, and the marker is there.
C1_CycleOfTwoRedacted ==
    /\ Redacted
    /\ \E s \in Slots :
          /\ s[1] # 1
          /\ before[s[1]].items[s[2]].v = Ref(1)
          /\ ClosesCycle(s[1], s[2])
          /\ ~SpecMatches(s[1], s[2])
          /\ OutputAt(s[1], s[2]) = CircularMarker

\* ---- C5: idempotence

\* Node d can be reached from node a in heap h by following references
\* (in one step or more).
Successors(h, n) ==
    {h[n].items[i].v.n : i \in {j \in 1..Len(h[n].items) : h[n].items[j].v.t = "ref"}}

RECURSIVE ReachIn(_, _, _)
ReachIn(h, from, steps) ==
    IF steps = 0 THEN from
    ELSE ReachIn(h, from \cup UNION {Successors(h, n) : n \in from}, steps - 1)

Below(h, n) == ReachIn(h, Successors(h, n), Len(h))

\* No composite reachable from the root of h is its own descendant.
Acyclic(h) == \A n \in {1} \cup Below(h, 1) : n \notin Below(h, n)

\* Two values in memory h are equal as trees: the same primitive, or
\* composites of the same kind with the same keys in the same order and
\* equal items.
RECURSIVE SameTree(_, _, _)
SameTree(h, v, w) ==
    IF v.t # "ref" \/ w.t # "ref" THEN v = w
    ELSE /\ h[v.n].kind = h[w.n].kind
         /\ Len(h[v.n].items) = Len(h[w.n].items)
         /\ \A i \in 1..Len(h[v.n].items) :
               /\ h[v.n].items[i].k = h[w.n].items[i].k
               /\ SameTree(h, h[v.n].items[i].v, h[w.n].items[i].v)

RedactedAgain == phase = "again"

\* The strategies the first walk resolved for the keys it redacted.
StrategiesMet ==
    {ResolveStrategy(config, before[s[1]].items[s[2]].k) :
        s \in {t \in Slots : SpecMatches(t[1], t[2])}}

\* C5 as stated: on every acyclic input, redacting the output again under
\* the same policy gives an equal output.
C5_Idempotent ==
    (RedactedAgain /\ Acyclic(before)) => SameTree(heap, run1.val, run2.val)

\* C5 amended: on every acyclic input on which no redacted key resolves to
\* hash, to mask-last-0 or to a custom transform, redacting the output again
\* under the same policy gives an equal output.
C5_IdempotentWithoutHash ==
    (/\ RedactedAgain
     /\ Acyclic(before)
     /\ \A g \in StrategiesMet :
           g.t # "fn" /\ g # StrategyHash /\ g # MaskLast(<<"0">>))
        => SameTree(heap, run1.val, run2.val)

\* An output holding a partially masked string has been redacted again.
C5_MaskedTwice ==
    /\ RedactedAgain
    /\ Acyclic(before)
    /\ StrategiesMet = {MaskLast(<<"1">>)}
    /\ \E i \in 1..Len(heap[run1.val.n].items) :
          heap[run1.val.n].items[i].v = Str(<<"*", "w">>)
    /\ SameTree(heap, run1.val, run2.val)

\* ---- C6: removed keys are absent, other redacted keys are present

\* The copy of n has an entry under the key of item i of n.
KeptAt(n, i) ==
    \E j \in 1..Len(Memory1[CopyOf(n)].items) :
        Memory1[CopyOf(n)].items[j].k = before[n].items[i].k

ResolvedAt(n, i) == ResolveStrategy(config, before[n].items[i].k)

\* C6 as stated: a redacted key is absent from the output object when its
\* resolved strategy is remove and present, with a transformed value, when
\* it is anything else, a custom transform included.
C6_AbsentIffRemove ==
    Redacted => \A s \in Slots : SpecMatches(s[1], s[2]) =>
        IF ResolvedAt(s[1], s[2]) = StrategyRemove
        THEN ~KeptAt(s[1], s[2])
        ELSE KeptAt(s[1], s[2])

\* The custom transform resolved for item i of n returns undefined.
TransformDrops(n, i) ==
    /\ ResolvedAt(n, i).t = "fn"
    /\ CallFn(ResolvedAt(n, i).s[1], before[n].items[i].v) = Undefined

\* C6 amended: a redacted key is absent from the output object (not present
\* with undefined or null) when its resolved strategy is remove or a custom
\* transform that returns undefined, and present with the strategy's result
\* otherwise.
C6_AbsentIffRemoveOrUndefined ==
    Redacted => \A s \in Slots : SpecMatches(s[1], s[2]) =>
        IF ResolvedAt(s[1], s[2]) = StrategyRemove \/ TransformDrops(s[1], s[2])
        THEN ~KeptAt(s[1], s[2])
        ELSE /\ KeptAt(s[1], s[2])
             /\ OutputAt(s[1], s[2]) =
                   ApplyStrategy(before[s[1]].items[s[2]].v, ResolvedAt(s[1], s[2]))

\* An object has been redacted with one key removed and another masked.
C6_RemovedAndMasked ==
    /\ Redacted
    /\ \E s, u \in Slots :
          /\ s[1] = u[1]
          /\ SpecMatches(s[1], s[2]) /\ SpecMatches(u[1], u[2])
          /\ ResolvedAt(s[1], s[2]) = StrategyRemove /\ ~KeptAt(s[1], s[2])
          /\ ResolvedAt(u[1], u[2]) = StrategyMask /\ OutputAt(u[1], u[2]) = Mask

\* ---- C7: case-insensitive matching, original spelling kept

\* The values a strategy named by the policy (or the default mask) gives for v
RedactionsOf(v) ==
    {ApplyStrategy(v, g) :
        g \in {config.strategies.entries[j].v : j \in 1..Len(config.strategies.entries)}
              \cup {config.defaultStrategy, StrategyMask}}

\* What the walk gives for an item it does not redact: the primitive itself,
\* the marker, or the copy built for the composite.
WalkedValue(n, i) ==
    LET v == before[n].items[i].v
        out == OutputAt(n, i)
    IN  IF v.t # "ref" THEN out = v
        ELSE \/ out = CircularMarker
             \/ v.n \in EnteredNodes /\ out = Ref(CopyOf(v.n))

\* The keys of the copy of n, in order
CopyKeys(n) ==
    [j \in 1..Len(Memory1[CopyOf(n)].items) |-> Memory1[CopyOf(n)].items[j].k]

\* The keys of n whose entries the copy keeps, in order
RECURSIVE KeptKeys(_, _)
KeptKeys(n, i) ==
    IF i > Len(before[n].items) THEN <<>>
    ELSE (IF KeptAt(n, i) THEN <<before[n].items[i].k>> ELSE <<>>) \o KeptKeys(n, i + 1)

\* C7: at every depth the walk reaches, inside arrays too, a key is redacted
\* exactly when its lowercase form is the lowercase form of an entry of the
\* policy's keys; the keys kept in the output are spelled as in the input;
\* and a key that does not match keeps its value, recursively redacted.
C7_CaseInsensitiveMatch ==
    Redacted =>
        /\ \A s \in Slots : before[s[1]].kind = "obj" =>
              IF SpecMatches(s[1], s[2])
              THEN \/ ~KeptAt(s[1], s[2])
                   \/ OutputAt(s[1], s[2]) \in RedactionsOf(before[s[1]].items[s[2]].v)
              ELSE KeptAt(s[1], s[2]) /\ WalkedValue(s[1], s[2])
        /\ \A n \in EnteredNodes : before[n].kind = "obj" => CopyKeys(n) = KeptKeys(n, 1)

\* An object inside an array has been redacted: its key "A" matched the
\* policy's "a" and was masked, and is spelled "A" in the output.
C7_UpperCaseKeyInArray ==
    /\ Redacted
    /\ config.keys = <<<<"a">>>>
    /\ before[1].kind = "arr"
    /\ 2 \in EnteredNodes
    /\ before[2].kind = "obj"
    /\ before[2].items # <<>>
    /\ before[2].items[1].k = <<"A">>
    /\ before[2].items[1].v = Str(<<"v", "w">>)
    /\ Memory1[CopyOf(2)].items = <<Entry(<<"A">>, Mask)>>

\* ---- C12: the order in which the strategy of a matched key is resolved

\* The strategies entries of the policy, none when it has no strategies map
StrategyEntries == IF config.strategies.present THEN config.strategies.entries ELSE <<>>

\* The values registered under exactly this spelling, and under any spelling
\* with the same lowercase form
ExactEntries(key) ==
    {StrategyEntries[i].v : i \in {j \in 1..Len(StrategyEntries) :
                                      StrategyEntries[j].k = key}}
LowerCaseEntries(key) ==
    {StrategyEntries[i].v : i \in {j \in 1..Len(StrategyEntries) :
                                      ToLowerCase(StrategyEntries[j].k) = ToLowerCase(key)}}

DefaultOrMask ==
    IF config.defaultStrategy = Undefined THEN StrategyMask ELSE config.defaultStrategy

\* The strategies the stated order allows for a key: the entry of the same
\* spelling; otherwise an entry of the same lowercase form; otherwise the
\* default strategy, mask when none is configured.
StatedStrategies(key) ==
    IF ExactEntries(key) # {} THEN ExactEntries(key)
    ELSE IF LowerCaseEntries(key) # {} THEN LowerCaseEntries(key)
    ELSE {DefaultOrMask}

\* The same order, an entry counting only when its strategy is not empty,
\* and the entry of the same lowercase form being the first one registered,
\* whatever its strategy.
FirstLowerCaseEntry(key) ==
    StrategyEntries[CHOOSE i \in 1..Len(StrategyEntries) :
        /\ ToLowerCase(StrategyEntries[i].k) = ToLowerCase(key)
        /\ \A j \in 1..(i - 1) :
               ToLowerCase(StrategyEntries[j].k) # ToLowerCase(key)].v
NonEmptyStrategy(g) == g \notin {Undefined, Null, Str(<<>>), Num(<<"0">>)}
AmendedStrategy(key) ==
    IF \E g \in ExactEntries(key) : NonEmptyStrategy(g)
    THEN CHOOSE g \in ExactEntries(key) : NonEmptyStrategy(g)
    ELSE IF LowerCaseEntries(key) # {} THEN FirstLowerCaseEntry(key)
    ELSE DefaultOrMask

\* The walk's output for item i of n is what strategy g gives for its value.
RedactedWith(n, i, g) ==
    LET result == ApplyStrategy(before[n].items[i].v, g)
    IN  IF result = Undefined THEN ~KeptAt(n, i)
        ELSE KeptAt(n, i) /\ OutputAt(n, i) = result

\* C12 as stated: a matched key is redacted with the strategies entry of
\* exactly its spelling; otherwise with an entry of the same lowercase
\* form; otherwise with defaultStrategy, mask when none is configured.  An
\* entry of the exact spelling always wins over one spelled in another case.
C12_ResolutionOrder ==
    Redacted => \A s \in Slots : SpecMatches(s[1], s[2]) =>
        \E g \in StatedStrategies(before[s[1]].items[s[2]].k) :
            RedactedWith(s[1], s[2], g)

\* C12 amended: a matched key is redacted with the strategies entry of
\* exactly its spelling when that entry's strategy is not empty; otherwise
\* with the first registered entry of the same lowercase form; otherwise
\* with defaultStrategy, mask when none is configured.
C12_ResolutionOrderNonEmpty ==
    Redacted => \A s \in Slots : SpecMatches(s[1], s[2]) =>
        /\ ResolvedAt(s[1], s[2]) = AmendedStrategy(before[s[1]].items[s[2]].k)
        /\ RedactedWith(s[1], s[2], AmendedStrategy(before[s[1]].items[s[2]].k))

\* Under { A: 'hash', a: '' } the value of key a has been hashed: the empty
\* entry of its own spelling was passed over for the entry spelled A.
C12_EmptyExactEntryPassedOver ==
    /\ Redacted
    /\ StrategyEntries = <<Entry(<<"A">>, StrategyHash), Entry(<<"a">>, Str(<<>>))>>
    /\ \E s \in Slots :
          /\ SpecMatches(s[1], s[2])
          /\ before[s[1]].items[s[2]].k = <<"a">>
          /\ before[s[1]].items[s[2]].v = Str(<<"v", "w">>)
          /\ ResolvedAt(s[1], s[2]) = StrategyHash
          /\ OutputAt(s[1], s[2]) = Str(Sha256Hex(<<"v", "w">>))

\* ---- C13: the input is left as it was, the output is built anew

\* The composites of the caller, which the first call was given
InputNodes == 1..Len(before)

\* Only built-in strategies were resolved for the keys the walk redacted.
BuiltInOnly == \A g \in StrategiesMet : g.t # "fn"

\* Every composite of the first call's output is one the call built, and
\* holds no reference to a composite of the caller.
OutputBuiltAnew ==
    /\ run1.val.t = "ref"
    /\ run1.val.n \in Copies
    /\ \A id \in Copies :
          /\ id \notin InputNodes
          /\ \A i \in 1..Len(Memory1[id].items) :
                Memory1[id].items[i].v.t = "ref" =>
                    /\ Memory1[id].items[i].v.n \in Copies
                    /\ Memory1[id].items[i].v.n \notin InputNodes

\* C13: after recursiveRedact, under any policy and on cyclic and acyclic
\* input alike, every object and array of the input has the keys, elements
\* and values it had before (and so has the first output after it has been
\* redacted again); with built-in strategies every composite of the output
\* is one the call built, none a node of the input.
C13_InputNotMutated ==
    Redacted =>
        /\ ~run1.st.overflow
        /\ Len(Memory1) >= Len(before)
        /\ \A n \in InputNodes : Memory1[n] = before[n]
        /\ BuiltInOnly => OutputBuiltAnew
        /\ phase = "again" =>
               /\ Len(run2.st.heap) >= Len(Memory1)
               /\ \A n \in 1..Len(Memory1) : run2.st.heap[n] = Memory1[n]

\* Two objects referring to each other, one through a redacted key, have
\* been redacted under built-in strategies: they are as they were, and the
\* output is one new object holding the mask.
C13_CyclicInputIntact ==
    /\ Redacted
    /\ ~Acyclic(before)
    /\ Len(before) = 2
    /\ BuiltInOnly
    /\ \E s \in Slots :
          /\ SpecMatches(s[1], s[2])
          /\ before[s[1]].items[s[2]].v = Ref(2)
          /\ OutputAt(s[1], s[2]) = Mask
    /\ \A n \in InputNodes : Memory1[n] = before[n]
    /\ Copies = {3}
    /\ run1.val = Ref(3)

\* ---- C14: a composite referenced twice without a cycle

\* The marker stands somewhere in the first call's output.
MarkerInOutput ==
    \/ run1.val = CircularMarker
    \/ \E id \in Copies : \E i \in 1..Len(Memory1[id].items) :
          Memory1[id].items[i].v = CircularMarker

\* Composite n is referenced from two places of the input the walk descends
\* into (items that are not under a redacted key).
Shared(n) ==
    \E s, u \in Slots :
        /\ s # u
        /\ ~SpecMatches(s[1], s[2]) /\ ~SpecMatches(u[1], u[2])
        /\ before[s[1]].items[s[2]].v = Ref(n)
        /\ before[u[1]].items[u[2]].v = Ref(n)

\* C14: on an acyclic input, a composite referenced from several places
\* included, every reference the walk descends into is redacted as a
\* composite and '[Circular]' stands nowhere in the output.
C14_MarkerOnlyOnCycles ==
    (Redacted /\ Acyclic(before)) =>
        /\ ~MarkerInOutput
        /\ \A s \in Slots :
              (/\ ~SpecMatches(s[1], s[2])
               /\ before[s[1]].items[s[2]].v.t = "ref") =>
                  /\ OutputAt(s[1], s[2]).t = "ref"
                  /\ OutputAt(s[1], s[2]).n \in Copies

\* The marker stands in the output of every acyclic input holding a
\* composite referenced twice: the second reference is cut.
SharedReferenceMarked ==
    (Redacted /\ Acyclic(before) /\ \E n \in InputNodes : Shared(n)) => MarkerInOutput

(***************************************************************************)
(* The logger context (context.ts, wrapper.ts).                            *)
(*                                                                         *)
(* The runtime is single-threaded and cooperative: one branch runs at a    *)
(* time, and gives way only at a suspension point.  AsyncLocalStorage      *)
(* keeps one current store; a continuation resumes with the store that was *)
(* current when it was created, and run(store, callback) makes store the   *)
(* current one for the callback and what the callback awaits.              *)
(*                                                                         *)
(* A branch is a chain of continuations: a top-level request, or a child   *)
(* spawned inside a branch (a promise started and not awaited, a timer).   *)
(* frames[t] lists, innermost first, the stores of the runWithLogger       *)
(* bodies branch t is inside of; a child starts with the store that was    *)
(* current where it was spawned.                                           *)
(***************************************************************************)

\* ---- bounds of SpecCtx
MaxTasks == 3
MaxStores == 2
MaxUpdates == 1
MaxWarnings == 1

\* The two independent top-level branches, and the children they may spawn
Tops == {1, 2}
Tasks == 1..MaxTasks
Children == Tasks \ Tops

\* A logger handle: the top-level branch whose code created it, and its
\* number.  Every handle passed to runWithLogger or updateLoggerContext is
\* a new one, as rootLogger.child(...) returns: ScopedLogger for a new
\* scope, ExtendedLogger for getLogger().child(...) or, outside a scope, a
\* child of the branch's root logger.  None is the absent value, undefined.
None == [fam |-> 0, ver |-> 0]

Errors == {"Boom", "Denied"}
NoError == "none"

\* store?.logger
LoggerIn(sts, cur) == IF cur = 0 THEN None ELSE sts[cur].logger

ScopedLogger(t) == [fam |-> family[t], ver |-> 10 * (Len(stores) + 1)]
ExtendedLogger(t) == [fam |-> family[t], ver |-> LoggerIn(stores, current).ver + 1]

\* getLogger(): the logger of the current store, undefined without a store
GetLogger == LoggerIn(stores, current)

\* The store a branch's next continuation runs with
ContextOf(fr) == IF fr = <<>> THEN 0 ELSE Head(fr).store

\* runWithLogger with one store object kept for all calls
RunWithLoggerSharedStore(t, logger, w) ==
    /\ stores' = IF stores = <<>> THEN <<[logger |-> logger]>>
                 ELSE [stores EXCEPT ![1].logger = logger]
    /\ current' = 1
    /\ frames' = [frames EXCEPT ![t] = <<[store |-> 1, wrapped |-> w]>> \o @]

\* runWithLogger(logger, callback): asyncLocalStorage.run({ logger }, callback)
\* makes a new store object the current store of the callback.  w tells
\* whether the callback is the one withLogger passes, which catches, logs
\* and rethrows.
RunWithLogger(t, logger, w) ==
    /\ stores' = Append(stores, [logger |-> logger])
    /\ current' = Len(stores) + 1
    /\ frames' = [frames EXCEPT ![t] =
                     <<[store |-> Len(stores) + 1, wrapped |-> w]>> \o @]

\* updateLoggerContext that forgets the assignment
UpdateLoggerContextIgnored(newLogger) ==
    /\ UNCHANGED <<stores, current>>
    /\ warnings' = IF current # 0 THEN warnings ELSE warnings + 1

\* updateLoggerContext that gives the branch a store of its own instead of
\* writing to the current one (a copy of the store, then enterWith)
UpdateLoggerContextCopy(newLogger) ==
    IF current # 0
    THEN /\ Len(stores) <= MaxStores
         /\ stores' = Append(stores, [logger |-> newLogger])
         /\ current' = Len(stores) + 1
         /\ UNCHANGED warnings
    ELSE /\ warnings' = warnings + 1
         /\ UNCHANGED <<stores, current>>

\* updateLoggerContext that makes the new logger current when there is no
\* store (asyncLocalStorage.enterWith({ logger: newLogger }))
UpdateLoggerContextEnterWith(newLogger) ==
    IF current # 0
    THEN /\ stores' = [stores EXCEPT ![current].logger = newLogger]
         /\ UNCHANGED <<current, warnings>>
    ELSE /\ Len(stores) <= MaxStores
         /\ stores' = Append(stores, [logger |-> newLogger])
         /\ current' = Len(stores) + 1
         /\ warnings' = warnings + 1

\* updateLoggerContext that writes the logger of every store (one logger
\* slot kept for the whole process)
UpdateLoggerContextEveryStore(newLogger) ==
    IF current # 0
    THEN /\ stores' = [s \in DOMAIN stores |-> [stores[s] EXCEPT !.logger = newLogger]]
         /\ UNCHANGED <<current, warnings>>
    ELSE /\ warnings' = warnings + 1
         /\ UNCHANGED <<stores, current>>

\* updateLoggerContext(newLogger): writes the current store's logger in
\* place, or warns when there is no store
UpdateLoggerContext(newLogger) ==
    IF current # 0
    THEN /\ stores' = [stores EXCEPT ![current].logger = newLogger]
         /\ UNCHANGED <<current, warnings>>
    ELSE /\ warnings' = warnings + 1
         /\ UNCHANGED <<stores, current>>

\* the catch block of withLogger throws an error of its own
RethrowWrapped(error) == "Unhandled Lambda Exception"

\* throw error, in the catch block of withLogger
Rethrow(error) == error

\* ---- The history the claims are stated on (no operation reads it).
\* scopes[t] lists, innermost first, the scopes branch t is inside of:
\* [id, own, prev], own telling whether t's own runWithLogger began it, prev
\* what getLogger() returned just before that call.  bound[id] is the logger
\* most recently bound to scope id, by its runWithLogger or by an
\* updateLoggerContext made inside it.  last is the latest operation, when
\* it was a getLogger, an updateLoggerContext or a failed runWithLogger, and
\* what came of it.
ScopeOf(t) == IF scopes[t] = <<>> THEN 0 ELSE Head(scopes[t]).id
BoundTo(id) == IF id = 0 THEN None ELSE bound[id]
InOwnScope(t) == scopes[t] # <<>> /\ Head(scopes[t]).own

NoEvent == [op |-> "none", task |-> 0, got |-> None, want |-> None, scope |-> 0,
            thrown |-> NoError, received |-> NoError, logged |-> NoError,
            prev |-> None]

CtxStart ==
    /\ stores = <<>>
    /\ current = 0
    /\ running = 0
    /\ status = [t \in Tasks |-> IF t \in Tops THEN "ready" ELSE "idle"]
    /\ frames = [t \in Tasks |-> <<>>]
    /\ family = [t \in Tasks |-> IF t \in Tops THEN t ELSE 0]
    /\ warnings = 0
    /\ scopes = [t \in Tasks |-> <<>>]
    /\ bound = <<>>
    /\ last = NoEvent

CtxIdle ==
    /\ stores = <<>>
    /\ current = 0
    /\ running = 0
    /\ status = <<>>
    /\ frames = <<>>
    /\ family = <<>>
    /\ warnings = 0
    /\ scopes = <<>>
    /\ bound = <<>>
    /\ last = NoEvent

\* A continuation of branch t is taken off the queue and runs, with the
\* store it was created under.
Resume(t) ==
    /\ running = 0
    /\ status[t] = "ready"
    /\ running' = t
    /\ status' = [status EXCEPT ![t] = "running"]
    /\ current' = ContextOf(frames[t])
    /\ last' = NoEvent
    /\ UNCHANGED <<stores, frames, family, warnings, scopes, bound>>
    /\ UNCHANGED <<avars, rvars>>

\* Branch t reaches an await and gives way.
Suspend(t) ==
    /\ running = t
    /\ running' = 0
    /\ status' = [status EXCEPT ![t] = "ready"]
    /\ current' = 0
    /\ last' = NoEvent
    /\ UNCHANGED <<stores, frames, family, warnings, scopes, bound>>
    /\ UNCHANGED <<avars, rvars>>

\* Branch t calls runWithLogger(logger, body) with a new logger, directly
\* (w = FALSE) or through a handler wrapped by withLogger (w = TRUE), and
\* is in the body.
Run(t, w) ==
    /\ running = t
    /\ Len(stores) < MaxStores
    /\ RunWithLogger(t, ScopedLogger(t), w)
    /\ scopes' = [scopes EXCEPT ![t] =
                     <<[id |-> Len(bound) + 1, own |-> TRUE, prev |-> GetLogger]>> \o @]
    /\ bound' = Append(bound, ScopedLogger(t))
    /\ last' = NoEvent
    /\ UNCHANGED <<running, status, family, warnings>>
    /\ UNCHANGED <<avars, rvars>>

\* The body of branch t's innermost runWithLogger returns: run() is left
\* and the caller goes on with the store it had.
Return(t) ==
    /\ running = t
    /\ InOwnScope(t)
    /\ frames' = [frames EXCEPT ![t] = Tail(@)]
    /\ current' = ContextOf(Tail(frames[t]))
    /\ scopes' = [scopes EXCEPT ![t] = Tail(@)]
    /\ last' = NoEvent
    /\ UNCHANGED <<stores, running, status, family, warnings, bound>>
    /\ UNCHANGED <<avars, rvars>>

\* The body of branch t's innermost runWithLogger throws (or rejects with)
\* error e.  A withLogger callback catches it, logs it and rethrows; run()
\* is left; the caller catches what arrives and calls getLogger().
Throw(t, e) ==
    /\ running = t
    /\ InOwnScope(t)
    /\ frames' = [frames EXCEPT ![t] = Tail(@)]
    /\ current' = ContextOf(Tail(frames[t]))
    /\ scopes' = [scopes EXCEPT ![t] = Tail(@)]
    /\ last' = [op |-> "throw", task |-> t,
                got |-> LoggerIn(stores, ContextOf(Tail(frames[t]))),
                want |-> IF Tail(scopes[t]) = <<>> THEN None
                         ELSE BoundTo(Head(Tail(scopes[t])).id),
                scope |-> IF Tail(scopes[t]) = <<>> THEN 0
                          ELSE Head(Tail(scopes[t])).id,
                thrown |-> e,
                received |-> IF Head(frames[t]).wrapped THEN Rethrow(e) ELSE e,
                logged |-> IF Head(frames[t]).wrapped THEN e ELSE NoError,
                prev |-> Head(scopes[t]).prev]
    /\ UNCHANGED <<stores, running, status, family, warnings, bound>>
    /\ UNCHANGED <<avars, rvars>>

\* Branch t calls getLogger().
Get(t) ==
    /\ running = t
    /\ last' = [NoEvent EXCEPT !.op = "get", !.task = t, !.got = GetLogger,
                               !.want = BoundTo(ScopeOf(t)), !.scope = ScopeOf(t)]
    /\ UNCHANGED <<stores, current, running, status, frames, family, warnings>>
    /\ UNCHANGED <<scopes, bound>>
    /\ UNCHANGED <<avars, rvars>>

\* Branch t calls updateLoggerContext(newLogger) with a new logger, then
\* getLogger().
Update(t) ==
    /\ running = t
    /\ LoggerIn(stores, current).ver % 10 < MaxUpdates
    /\ current = 0 => warnings < MaxWarnings
    /\ UpdateLoggerContext(ExtendedLogger(t))
    /\ bound' = IF ScopeOf(t) = 0 THEN bound
                ELSE [bound EXCEPT ![ScopeOf(t)] = ExtendedLogger(t)]
    /\ last' = [NoEvent EXCEPT !.op = "update", !.task = t,
                               !.got = LoggerIn(stores', current'),
                               !.want = ExtendedLogger(t), !.scope = ScopeOf(t)]
    /\ UNCHANGED <<running, status, frames, family, scopes>>
    /\ UNCHANGED <<avars, rvars>>

\* Branch t starts child branch c without awaiting it: the child's first
\* continuation is created under the current store.
Spawn(t, c) ==
    /\ running = t
    /\ c \in Children
    /\ status[c] = "idle"
    /\ \A d \in Children : d < c => status[d] # "idle"
    /\ status' = [status EXCEPT ![c] = "ready"]
    /\ frames' = [frames EXCEPT ![c] =
                     IF current = 0 THEN <<>>
                     ELSE <<[store |-> current, wrapped |-> FALSE]>>]
    /\ family' = [family EXCEPT ![c] = family[t]]
    /\ scopes' = [scopes EXCEPT ![c] =
                     IF ScopeOf(t) = 0 THEN <<>>
                     ELSE <<[id |-> ScopeOf(t), own |-> FALSE, prev |-> None]>>]
    /\ last' = NoEvent
    /\ UNCHANGED <<stores, current, running, warnings, bound>>
    /\ UNCHANGED <<avars, rvars>>

\* Branch t has left every runWithLogger it called and ends.
Finish(t) ==
    /\ running = t
    /\ ~InOwnScope(t)
    /\ running' = 0
    /\ current' = 0
    /\ status' = [status EXCEPT ![t] = "done"]
    /\ last' = NoEvent
    /\ UNCHANGED <<stores, frames, family, warnings, scopes, bound>>
    /\ UNCHANGED <<avars, rvars>>

CtxNext ==
    \/ \E t \in Tasks : Resume(t)
    \/ \E t \in Tasks : Suspend(t)
    \/ \E t \in Tasks, w \in BOOLEAN : Run(t, w)
    \/ \E t \in Tasks : Return(t)
    \/ \E t \in Tasks, e \in Errors : Throw(t, e)
    \/ \E t \in Tasks : Get(t)
    \/ \E t \in Tasks : Update(t)
    \/ \E t \in Tasks, c \in Tasks : Spawn(t, c)
    \/ \E t \in Tasks : Finish(t)

\* ---- Claims on the logger context

\* What getLogger() would return in branch c's next continuation
WouldGet(c) == LoggerIn(stores, ContextOf(frames[c]))
Waiting(c) == status[c] = "ready"
Observed == last.op = "get"
Updated == last.op = "update"
Failed == last.op = "throw"

\* C2: two runWithLogger branches started independently and run
\* interleaved: every getLogger() a branch calls inside its own scope
\* returns the logger bound in that scope, a logger of its own request,
\* never one bound by the other branch.
C2_ScopeIsolation ==
    (Observed /\ last.scope # 0) =>
        /\ last.got.fam = family[last.task]
        /\ last.got \in {bound[i] : i \in {sc.id : sc \in
                            {scopes[last.task][k] : k \in 1..Len(scopes[last.task])}}}
        /\ \A t \in Tops : family[t] # family[last.task] =>
               \A k \in 1..Len(scopes[t]) : bound[scopes[t][k].id] # last.got

\* Branch 1 began its scope, branch 2 began its own later and is inside
\* it, suspended; branch 1, resumed, has called getLogger() and got its own.
C2_InterleavedBranchesObserved ==
    /\ Observed
    /\ last.task = 1
    /\ InOwnScope(1)
    /\ InOwnScope(2)
    /\ Waiting(2)
    /\ ScopeOf(1) < ScopeOf(2)
    /\ last.got = bound[ScopeOf(1)]
    /\ WouldGet(2) = bound[ScopeOf(2)]
    /\ WouldGet(2) # last.got

\* C3, as stated: updateLoggerContext changes what getLogger() returns
\* later in the same branch and in branches spawned afterwards, and does
\* not change what it returns in any branch spawned before the update that
\* is waiting to go on.
C3_UpdateHiddenFromEarlierBranches ==
    [][ (last'.op = "update" /\ last'.scope # 0) =>
            /\ last'.got = last'.want
            /\ \A c \in Tasks \ {last'.task} :
                   Waiting(c) => WouldGet(c)' = WouldGet(c) ]_vars

\* C3, amended: updateLoggerContext inside a scope changes what getLogger()
\* returns in the calling branch and in every branch that shares the scope,
\* whether spawned before or after the update (they read the same store);
\* it changes nothing for branches in any other scope, and a branch spawned
\* later starts with what its parent sees.
C3_UpdateSeenThroughSharedScope ==
    [][ /\ (last'.op = "update" /\ last'.scope # 0) =>
            /\ last'.got = last'.want
            /\ \A c \in Tasks \ {last'.task} :
                   Waiting(c) =>
                       WouldGet(c)' = IF ScopeOf(c) = last'.scope
                                      THEN last'.want ELSE WouldGet(c)
        /\ \A c \in Tasks :
               (status[c] = "idle" /\ status'[c] = "ready") =>
                   WouldGet(c)' = GetLogger ]_vars

\* A branch has just updated its scope while a child spawned before the
\* update waits in the same scope, and now would get the new logger, and a
\* branch of the other request waits in its own scope and would not.
C3_EarlierChildSeesUpdate ==
    /\ Updated
    /\ last.scope # 0
    /\ \E c \in Children :
           /\ Waiting(c)
           /\ ScopeOf(c) = last.scope
           /\ WouldGet(c) = last.want
    /\ \E d \in Tops :
           /\ Waiting(d)
           /\ ScopeOf(d) \notin {0, last.scope}
           /\ WouldGet(d) = bound[ScopeOf(d)]
           /\ WouldGet(d) # last.want

\* C4: anywhere inside the extent of runWithLogger(L, body), whatever
\* suspensions came before and in whichever descendant the call is made,
\* getLogger() returns a logger, never undefined, and it is the one most
\* recently bound to the scope: L or the argument of the latest
\* updateLoggerContext made in it.
C4_ScopeSurvivesSuspension ==
    ((Observed \/ Updated) /\ last.scope # 0) =>
        /\ last.got # None
        /\ last.got = last.want
        /\ last.got = bound[ScopeOf(last.task)]

\* A child branch, which runs only after its parent gave way, calls
\* getLogger() and gets the logger an updateLoggerContext bound to the scope.
C4_ChildObservesLatestBinding ==
    /\ Observed
    /\ last.task \in Children
    /\ last.scope # 0
    /\ last.got = bound[last.scope]
    /\ last.got.ver % 10 = 1

BeginsNested ==
    /\ running # 0
    /\ frames[running] # <<>>
    /\ Len(frames'[running]) = Len(frames[running]) + 1
EndsNested ==
    /\ running # 0
    /\ Len(frames[running]) >= 2
    /\ frames'[running] = Tail(frames[running])
UpdatesNested ==
    /\ running # 0
    /\ Len(frames[running]) >= 2
    /\ last'.op = "update"
    /\ last'.task = running

\* C11: a runWithLogger call made inside a scope begins a scope of its
\* own: getLogger() in the nested body returns the nested logger and the
\* enclosing scope keeps its logger; updateLoggerContext inside the nested
\* body writes the nested scope only; and when the nested body ends, by
\* return or by failure, getLogger() in the branch again returns the
\* logger currently bound to the enclosing scope.
C11_NestedScopeIndependent ==
    [][ /\ BeginsNested =>
               /\ GetLogger' = ScopedLogger(running)
               /\ GetLogger' # GetLogger
               /\ \A s \in 1..Len(stores) : stores'[s] = stores[s]
               /\ LoggerIn(stores', Head(frames[running]).store) = GetLogger
        /\ UpdatesNested =>
               /\ GetLogger' = last'.want
               /\ \A s \in 1..Len(stores) : s # current => stores'[s] = stores[s]
               /\ LoggerIn(stores', frames[running][2].store)
                      = LoggerIn(stores, frames[running][2].store)
        /\ EndsNested =>
               /\ stores' = stores
               /\ GetLogger' = LoggerIn(stores, frames[running][2].store)
               /\ GetLogger' = bound[ScopeOf(running)']
               /\ GetLogger' # None ]_vars

\* Branch 1 began a scope, began a second one inside it, called
\* updateLoggerContext there and left it; back in the first scope its
\* getLogger() returned the first scope's logger, untouched, while the
\* store of the ended scope holds the update.
C11_BackInEnclosingScope ==
    /\ Observed
    /\ last.task = 1
    /\ Len(scopes[1]) = 1
    /\ last.scope = 1
    /\ Len(stores) = 2
    /\ stores[2].logger.fam = 1
    /\ stores[2].logger.ver % 10 = 1
    /\ \A c \in Children : status[c] = "idle"
    /\ last.got = stores[1].logger
    /\ last.got.ver % 10 = 0
    /\ last.got = bound[1]

ApplyNext == Apply \/ Reapply

ApplyInit == ApplyStart /\ RedactIdle /\ CtxIdle

SpecApply == ApplyInit /\ [][ApplyNext]_vars

Init == RedactStart /\ ApplyIdle /\ CtxIdle

Spec == Init /\ [][RedactNext]_vars

CtxInit == CtxStart /\ ApplyIdle /\ RedactIdle

SpecCtx == CtxInit /\ [][CtxNext]_vars
====
